---- MODULE Spec2Model ----
(***************************************************************************)
(* Index tracking: the tracking-error QUBO, its exhaustive solver, the     *)
(* scoring of sampled bitstrings and the Portfolio the solvers act on.     *)
(*                                                                         *)
(* Numbers.  The program computes with floats; the model computes with     *)
(* exact rationals <<numerator, denominator>> in lowest terms with a       *)
(* positive denominator, so that 1/N weights, the division by the number   *)
(* of shots and the comparison with the 1e5 start value are all exact.     *)
(* Rounding is not modelled.                                               *)
(*                                                                         *)
(* Indices.  Arrays are 1-based here and 0-based in the program: model     *)
(* index i is program index i-1, and bit i-1 of a state s belongs to it.   *)
(***************************************************************************)
EXTENDS Integers, Sequences, FiniteSets, TLC

VARIABLES
    pf,     \* the Portfolio object: N, n, w, Sigma, g, eps0
    call    \* the call being made: function, arguments, result

vars == <<pf, call>>

(***************************************************************************)
(* Bounds of the model.                                                    *)
(***************************************************************************)
MaxN == 2          \* most stocks in a universe
MaxDays == 1       \* most daily returns read per ticker
MaxSamples == 2    \* most distinct bitstrings in a measurement result
MaxKeyLen == 2     \* longest bitstring key of a measurement result

(***************************************************************************)
(* Exact arithmetic standing for the program's float arithmetic.           *)
(***************************************************************************)
Abs(x) == IF x < 0 THEN -x ELSE x

RECURSIVE Gcd(_, _)
Gcd(a, b) == IF b = 0 THEN a ELSE Gcd(b, a % b)

Rat(n, d) ==
    IF d = 1 THEN <<n, 1>>
    ELSE LET k == Gcd(Abs(n), Abs(d))
             s == IF d < 0 THEN -1 ELSE 1
         IN  <<(s * n) \div k, (s * d) \div k>>

RInt(k) == <<k, 1>>
R0 == RInt(0)

RAdd(x, y) == Rat(x[1] * y[2] + y[1] * x[2], x[2] * y[2])
RSub(x, y) == Rat(x[1] * y[2] - y[1] * x[2], x[2] * y[2])
RMul(x, y) == Rat(x[1] * y[1], x[2] * y[2])
RLt(x, y) == x[1] * y[2] < y[1] * x[2]

\* An array with its elements computed, once.
asarray(xs) == SubSeq(xs, 1, Len(xs))

RECURSIVE RSumTo(_, _)
RSumTo(xs, k) == IF k = 0 THEN R0 ELSE RAdd(RSumTo(xs, k - 1), xs[k])

\* The sum of the elements of xs.
RSum(xs) == LET a == asarray(xs) IN RSumTo(a, Len(a))

\* np.dot of two vectors.
dot(x, y) == RSum([i \in 1..Len(x) |-> RMul(x[i], y[i])])

\* np.count_nonzero of a boolean array.
count_nonzero(n) == Cardinality({i \in 1..Len(n) : n[i]})

\* np.where(n == True)[0]: the True positions, ascending.
RECURSIVE where(_)
where(n) ==
    IF n = <<>> THEN <<>>
    ELSE LET front == where(SubSeq(n, 1, Len(n) - 1))
         IN  IF n[Len(n)] THEN Append(front, Len(n)) ELSE front

\* (s >> i) & 1
Bit(s, i) == (s \div (2 ^ i)) % 2

(***************************************************************************)
(* minimize_track_error.py                                                 *)
(***************************************************************************)

\* The correlation data of the stocks ix only.
Restrict(Sigma, g, ix) ==
    [Sigma |-> asarray([i \in 1..Len(ix) |->
                  asarray([j \in 1..Len(ix) |-> Sigma[ix[i]][ix[j]]])]),
     g     |-> asarray([i \in 1..Len(ix) |-> g[ix[i]]])]

\* The loss function f of minimize_w: w.(Sigma w) - 2 g.w + eps0.
f(w, Sigma, g, eps0) ==
    LET Sw == asarray([i \in 1..Len(w) |-> dot(Sigma[i], w)])
    IN  RAdd(RSub(dot(w, Sw), RMul(RInt(2), dot(g, w))), eps0)

\* The value min_terr starts from.
min_terr0 == RInt(100000)

\* b[i] = Sigma[i, i]*w[i]**2 - 2*g[i]*w[i]
BuildB(w, Sigma, g, N) ==
    asarray([i \in 1..N |->
        RSub(RMul(Sigma[i][i], RMul(w[i], w[i])),
             RMul(RInt(2), RMul(g[i], w[i])))])

\* BuildA with the factor 2 of the pair term left out.
BuildA_half(w, Sigma, N) ==
    asarray([i \in 1..N |-> asarray([j \in 1..N |->
        IF j > i THEN RMul(Sigma[j][i], RMul(w[i], w[j])) ELSE R0])])

\* A[i, j] = 2*Sigma[j, i]*w[i]*w[j] for j > i, zero elsewhere.
BuildA(w, Sigma, N) ==
    asarray([i \in 1..N |-> asarray([j \in 1..N |->
        IF j > i THEN RMul(RInt(2), RMul(Sigma[j][i], RMul(w[i], w[j])))
        ELSE R0])])

\* Number of bits of s among the first N.
nbits(s, N) == Cardinality({i \in 0..(N - 1) : Bit(s, i) = 1})

\* The tracking error of combination s, without eps0.
StateTerr(s, A, b, N) ==
    RSum([i \in 1..N |->
        IF Bit(s, i - 1) = 1
        THEN RAdd(b[i],
                  RSum([j \in 1..N |->
                      IF j > i /\ Bit(s, j - 1) = 1 THEN A[i][j] ELSE R0]))
        ELSE R0])

\* The loop over the states s, ..., max_s - 1.
RECURSIVE ExhaustiveLoop(_, _, _, _, _, _, _)
ExhaustiveLoop(s, max_s, acc, d, A, b, N) ==
    IF s >= max_s THEN acc
    ELSE LET terr == StateTerr(s, A, b, N)
             next == IF nbits(s, N) = d /\ RLt(terr, acc.min_terr)
                     THEN [min_terr |-> terr, min_terr_state |-> s]
                     ELSE acc
         IN  ExhaustiveLoop(s + 1, max_s, next, d, A, b, N)

Raised(kind) == [status |-> kind, stocks |-> <<>>, terr |-> R0]

solve_qubo_exhaustive(d, w, Sigma, g, eps0) ==
    LET N == Len(g) IN
    IF Len(w) < N THEN Raised("IndexError")
    ELSE LET A == BuildA(w, Sigma, N)
             b == BuildB(w, Sigma, g, N)
             fin == ExhaustiveLoop(0, 2 ^ N,
                        [min_terr |-> min_terr0, min_terr_state |-> 0],
                        d, A, b, N)
         IN  [status |-> "ok",
              stocks |-> [i \in 1..N |-> Bit(fin.min_terr_state, i - 1) = 1],
              terr   |-> RAdd(fin.min_terr, eps0)]

\* solve_qubo storing its solution in pf.n whatever update_potfolio says.
solve_qubo_always_updates(p, d, method, update_potfolio) ==
    LET sub == Restrict(p.Sigma, p.g, where(p.n))
        r == solve_qubo_exhaustive(d, p.w, sub.Sigma, sub.g, p.eps0)
    IN  [pf |-> [p EXCEPT !.n = r.stocks], ret |-> r]

\* solve_qubo(pf, d, method, update_potfolio): the portfolio it leaves and
\* what it returns or raises.  With a method other than 'exhaustive' stocks
\* stays the zero array of length pf.N and terr is never bound, so the
\* return statement raises, after the update.
solve_qubo(p, d, method, update_potfolio) ==
    LET stocks0 == [i \in 1..p.N |-> FALSE]
        ix_available == where(p.n)
        sub == Restrict(p.Sigma, p.g, ix_available)
        r == IF method = "exhaustive"
             THEN solve_qubo_exhaustive(d, p.w, sub.Sigma, sub.g, p.eps0)
             ELSE [status |-> "UnboundLocalError", stocks |-> stocks0,
                   terr |-> R0]
    IN  IF r.status = "IndexError" THEN [pf |-> p, ret |-> r]
        ELSE [pf  |-> IF update_potfolio THEN [p EXCEPT !.n = r.stocks] ELSE p,
              ret |-> IF r.status = "ok" THEN r
                      ELSE Raised("UnboundLocalError")]

\* What scipy's minimize may hand back as res.x for d purchased stocks: a
\* vector of d weights, none negative, adding up to 1 (none at all for
\* d = 0).  The vectors drawn put the whole weight on one stock; res.x is
\* used whether or not the optimizer converged.
OracleX(d) ==
    {x \in [1..d -> {R0, RInt(1)}] : d = 0 \/ RSum(x) = RInt(1)}

\* minimize_w(portfolio, update_portfolio), x being the minimizer res.x of f
\* over the purchased stocks that the optimizer reports.
minimize_w(p, update_portfolio, x) ==
    [pf  |-> IF update_portfolio THEN [p EXCEPT !.w = x] ELSE p,
     ret |-> [status |-> "ok", stocks |-> <<>>, terr |-> R0]]

(***************************************************************************)
(* get_data.py                                                             *)
(***************************************************************************)

\* Portfolio.__init__ from the daily returns r[i] of the N tickers and the
\* daily returns r_index of the index.
Portfolio(r, r_index) ==
    LET N == Len(r) IN
    [N     |-> N,
     w     |-> [i \in 1..N |-> Rat(1, N)],
     n     |-> [i \in 1..N |-> TRUE],
     Sigma |-> [i \in 1..N |-> [j \in 1..N |-> dot(r[i], r[j])]],
     g     |-> [i \in 1..N |-> dot(r[i], r_index)],
     eps0  |-> dot(r_index, r_index)]

(***************************************************************************)
(* compute_tracking_error.py                                               *)
(***************************************************************************)

\* int(k, 2) of a key given as its sequence of characters; -1 stands for
\* the ValueError a character other than 0 and 1, or an empty key, raises.
RECURSIVE int2(_)
int2(k) ==
    IF k = <<>> \/ \E i \in 1..Len(k) : k[i] \notin {"0", "1"} THEN -1
    ELSE IF Len(k) = 1 THEN (IF k[1] = "1" THEN 1 ELSE 0)
    ELSE 2 * int2(SubSeq(k, 1, Len(k) - 1)) + (IF k[Len(k)] = "1" THEN 1 ELSE 0)

\* The inner loops of both scorers: the number of stocks ns of the state and
\* its tracking error terrs, over the first N bits, every weight taken as 1.
ScoreState(state, N, Sigma, g) ==
    [ns    |-> Cardinality({i \in 0..(N - 1) : Bit(state, i) = 1}),
     terrs |-> RSum([i \in 1..N |->
                  RAdd(RMul(RSub(Sigma[i][i], RMul(RInt(2), g[i])),
                            RInt(Bit(state, i - 1))),
                       RSum([j \in 1..N |->
                           IF j > i
                           THEN RMul(RMul(RInt(2), Sigma[i][j]),
                                     RInt(Bit(state, i - 1) * Bit(state, j - 1)))
                           ELSE R0]))])]

\* The result of 0.0/0: not a number.
NaN == <<0, 0>>

\* The loop of compute_mean_terr over res.items(), from item k on.  np says
\* whether terr has become a numpy float: it does at the first terr += ...,
\* terrs being numpy floats, and then terr /= 0 gives nan where the Python
\* float 0.0 raises ZeroDivisionError.
RECURSIVE MeanLoop(_, _, _, _, _, _, _)
MeanLoop(res, k, acc, N, d, Sigma, g) ==
    IF k > Len(res) THEN acc
    ELSE LET state == int2(res[k][1])
             v == res[k][2]
             sc == ScoreState(state, N, Sigma, g)
         IN  IF state < 0 THEN [acc EXCEPT !.raised = TRUE]
             ELSE MeanLoop(res, k + 1,
                      [terr   |-> IF sc.ns = d
                                  THEN RAdd(acc.terr, RMul(sc.terrs, RInt(v)))
                                  ELSE acc.terr,
                       shots  |-> acc.shots + v,
                       np     |-> acc.np \/ sc.ns = d,
                       raised |-> FALSE],
                      N, d, Sigma, g)

compute_mean_terr(res, N, d, Sigma, g, eps0) ==
    LET acc == MeanLoop(res, 1,
                   [terr |-> R0, shots |-> 0, np |-> FALSE, raised |-> FALSE],
                   N, d, Sigma, g)
    IN  IF acc.raised THEN Raised("ValueError")
        ELSE IF acc.shots = 0
             THEN IF acc.np
                  THEN [status |-> "ok", stocks |-> <<>>, terr |-> NaN]
                  ELSE Raised("ZeroDivisionError")
        ELSE [status |-> "ok", stocks |-> <<>>,
              terr |-> RAdd(Rat(acc.terr[1], acc.terr[2] * acc.shots), eps0)]

\* The loop of find_min_terr over res.items(), from item k on.
RECURSIVE MinLoop(_, _, _, _, _, _, _)
MinLoop(res, k, acc, N, d, Sigma, g) ==
    IF k > Len(res) THEN acc
    ELSE LET state == int2(res[k][1])
             sc == ScoreState(state, N, Sigma, g)
         IN  IF state < 0 THEN [acc EXCEPT !.raised = TRUE]
             ELSE MinLoop(res, k + 1,
                      IF sc.ns = d /\ RLt(sc.terrs, acc.terr)
                      THEN [terr |-> sc.terrs, stocks |-> res[k][1],
                            raised |-> FALSE]
                      ELSE acc,
                      N, d, Sigma, g)

find_min_terr(res, N, d, Sigma, g, eps0) ==
    LET acc == MinLoop(res, 1,
                   [terr |-> min_terr0, stocks |-> <<>>, raised |-> FALSE],
                   N, d, Sigma, g)
    IN  IF acc.raised THEN Raised("ValueError")
        ELSE [status |-> "ok", stocks |-> acc.stocks, terr |-> acc.terr]

(***************************************************************************)
(* Inputs.                                                                 *)
(***************************************************************************)
WVals == {<<1, 2>>, RInt(1)}
SigmaDiagVals == {RInt(1), RInt(400000)}
SigmaOffVals == {R0, RInt(1)}
GVals == {R0, RInt(1)}
Eps0Vals == {R0, RInt(3)}

\* The symmetric N x N matrices with these entries.
SymMatrices(N) ==
    LET Pairs == {p \in (1..N) \X (1..N) : p[1] < p[2]}
    IN  {[i \in 1..N |-> [j \in 1..N |->
             IF i = j THEN dg[i]
             ELSE IF i < j THEN up[<<i, j>>] ELSE up[<<j, i>>]]] :
         dg \in [1..N -> SigmaDiagVals], up \in [Pairs -> SigmaOffVals]}

\* The state of the variable that a specification does not use.
NoPortfolio ==
    [N |-> 0, n |-> <<>>, w |-> <<>>, Sigma |-> <<>>, g |-> <<>>, eps0 |-> R0]

NoRet == Raised("none")

(***************************************************************************)
(* The exhaustive solver called on its own:                                *)
(* solve_qubo_exhaustive(d, w, Sigma, g, eps0).                            *)
(***************************************************************************)
InitExhaustive ==
    /\ pf = NoPortfolio
    /\ \E N \in 1..MaxN :
        \E d \in 0..N, w \in [1..N -> WVals], S \in SymMatrices(N),
           g \in [1..N -> GVals], e \in Eps0Vals :
            call = [fn |-> "solve_qubo_exhaustive", pc |-> "start", d |-> d,
                    w |-> w, Sigma |-> S, g |-> g, eps0 |-> e, ret |-> NoRet]

CallExhaustive ==
    /\ call.fn = "solve_qubo_exhaustive"
    /\ call.pc = "start"
    /\ call' = [call EXCEPT
           !.pc = "done",
           !.ret = solve_qubo_exhaustive(call.d, call.w, call.Sigma, call.g,
                                         call.eps0)]
    /\ UNCHANGED pf

NextExhaustive == CallExhaustive

SpecExhaustive == InitExhaustive /\ [][NextExhaustive]_vars

(***************************************************************************)
(* The scorers called on a measurement result res: a dict, here the        *)
(* sequence of its (key, count) items in insertion order.                  *)
(***************************************************************************)
Chars == {"0", "1", "x"}
Counts == {0, 1, 2}
Keys == UNION {[1..L -> Chars] : L \in 1..MaxKeyLen}
Items == Keys \X Counts

\* The measurement results of L items: their keys are distinct.
Results(L) ==
    {r \in [1..L -> Items] : \A i, j \in 1..L : i # j => r[i][1] # r[j][1]}

InitScorer ==
    /\ pf = NoPortfolio
    /\ \E N \in 1..MaxN, L \in 0..MaxSamples :
        \E r \in Results(L), d \in 0..N, S \in SymMatrices(N),
           g \in [1..N -> GVals], e \in Eps0Vals :
            call = [fn |-> "none", pc |-> "start", res |-> r, N |-> N,
                    d |-> d, Sigma |-> S, g |-> g, eps0 |-> e, ret |-> NoRet]

CallMean ==
    /\ call.pc = "start"
    /\ call' = [call EXCEPT
           !.fn = "compute_mean_terr",
           !.pc = "done",
           !.ret = compute_mean_terr(call.res, call.N, call.d, call.Sigma,
                                     call.g, call.eps0)]
    /\ UNCHANGED pf

CallMin ==
    /\ call.pc = "start"
    /\ call' = [call EXCEPT
           !.fn = "find_min_terr",
           !.pc = "done",
           !.ret = find_min_terr(call.res, call.N, call.d, call.Sigma,
                                 call.g, call.eps0)]
    /\ UNCHANGED pf

NextScorer == CallMean \/ CallMin

SpecScorer == InitScorer /\ [][NextScorer]_vars

(***************************************************************************)
(* A Portfolio and the calls that act on it: solve_qubo and minimize_w.    *)
(* call.pf0 is the portfolio as the call found it.                         *)
(***************************************************************************)
ReturnVals == {R0, RInt(1)}

Init ==
    /\ \E N \in 1..MaxN, T \in 1..MaxDays :
        \E r \in [1..N -> [1..T -> ReturnVals]], r_index \in [1..T -> ReturnVals] :
            pf = Portfolio(r, r_index)
    /\ call = [fn |-> "none", d |-> 0, method |-> "", update |-> FALSE,
               pf0 |-> NoPortfolio, ret |-> NoRet]

CallSolveQubo ==
    \E d \in 0..MaxN, method \in {"exhaustive", "other"}, u \in BOOLEAN :
        LET out == solve_qubo(pf, d, method, u) IN
        /\ pf' = out.pf
        /\ call' = [fn |-> "solve_qubo", d |-> d, method |-> method,
                    update |-> u, pf0 |-> pf, ret |-> out.ret]

CallMinimizeW ==
    \E u \in BOOLEAN, x \in OracleX(count_nonzero(pf.n)) :
        LET out == minimize_w(pf, u, x) IN
        /\ pf' = out.pf
        /\ call' = [fn |-> "minimize_w", d |-> 0, method |-> "",
                    update |-> u, pf0 |-> pf, ret |-> out.ret]

Next == CallSolveQubo \/ CallMinimizeW

Spec == Init /\ [][Next]_vars

(***************************************************************************)
(* Properties.  What they are stated with:                                 *)
(***************************************************************************)

\* x <= y for two rationals.
RLe(x, y) == x[1] * y[2] <= y[1] * x[2]

\* The selection a boolean array stands for, as a bitmask.
MaskOf(stocks) == RSum([i \in 1..Len(stocks) |->
                      RInt(IF stocks[i] THEN 2 ^ (i - 1) ELSE 0)])[1]

\* w on the assets of s, 0 elsewhere.
Masked(w, s) ==
    asarray([i \in 1..Len(w) |-> IF Bit(s, i - 1) = 1 THEN w[i] ELSE R0])

\* The full formula w'.(Sigma w') - 2 g.w' + eps0 for selection s.
DirectTerr(s, c) == f(Masked(c.w, s), c.Sigma, c.g, c.eps0)

\* The selections with exactly d of N assets.
Selections(N, d) == {s \in 0..(2 ^ N - 1) : nbits(s, N) = d}

ExhaustiveDone == call.fn = "solve_qubo_exhaustive" /\ call.pc = "done"

\* C1: solve_qubo_exhaustive returns a selection with exactly d assets whose
\* error, by the full formula, is no greater than that of any other
\* selection of d assets, and the error it returns is that minimum.
C1_ExhaustiveMinimal ==
    ExhaustiveDone =>
        LET N == Len(call.g) IN
        /\ call.ret.status = "ok"
        /\ count_nonzero(call.ret.stocks) = call.d
        /\ call.ret.terr = DirectTerr(MaskOf(call.ret.stocks), call)
        /\ \A s \in Selections(N, call.d) :
               RLe(call.ret.terr, DirectTerr(s, call))

\* The selections of d assets whose full-formula error is minimal.
Minimizers(c) ==
    LET S == Selections(Len(c.g), c.d)
    IN  {s \in S : \A t \in S : RLe(DirectTerr(s, c), DirectTerr(t, c))}

\* C5: when two or more selections of d assets tie at the minimal error,
\* solve_qubo_exhaustive returns the one with the smallest bitmask.
C5_TieBreakSmallestMask ==
    (ExhaustiveDone /\ Cardinality(Minimizers(call)) >= 2) =>
        /\ MaskOf(call.ret.stocks) \in Minimizers(call)
        /\ \A s \in Minimizers(call) : MaskOf(call.ret.stocks) <= s

\* C6: d = 0 gives the all-false selection with error eps0, and d = N the
\* all-true selection with error eps0 + sum of b[i] + sum of A[i, j], i < j.
C6_DegenerateCardinalities ==
    ExhaustiveDone =>
        LET N == Len(call.g)
            A == BuildA(call.w, call.Sigma, N)
            b == BuildB(call.w, call.Sigma, call.g, N)
        IN  /\ call.d = 0 =>
                /\ call.ret.stocks = [i \in 1..N |-> FALSE]
                /\ call.ret.terr = call.eps0
            /\ call.d = N =>
                /\ call.ret.stocks = [i \in 1..N |-> TRUE]
                /\ call.ret.terr =
                       RAdd(call.eps0,
                            RAdd(RSum(b),
                                 RSum([i \in 1..N |-> RSum(A[i])])))

\* C7: for every selection s, the error the loop computes from b and A, plus
\* eps0, is the full formula on w restricted to s; and the error returned
\* with a selection of d assets is the full formula on that selection.
C7_DecompositionEqualsDirect ==
    call.fn = "solve_qubo_exhaustive" =>
        LET N == Len(call.g)
            A == BuildA(call.w, call.Sigma, N)
            b == BuildB(call.w, call.Sigma, call.g, N)
        IN  /\ \A s \in 0..(2 ^ N - 1) :
                   RAdd(StateTerr(s, A, b, N), call.eps0) = DirectTerr(s, call)
            /\ (call.pc = "done" /\ count_nonzero(call.ret.stocks) = call.d) =>
                   call.ret.terr = DirectTerr(MaskOf(call.ret.stocks), call)

\* A selection of two assets with a non-zero pair term was returned.
C7_Witness ==
    /\ ExhaustiveDone
    /\ Len(call.g) = 2
    /\ call.d = 2
    /\ call.Sigma[1][2] # R0
    /\ call.ret.stocks = <<TRUE, TRUE>>

\* A key of exactly N characters, each 0 or 1.
WellFormed(k, N) == Len(k) = N /\ \A i \in 1..Len(k) : k[i] \in {"0", "1"}

\* The selection a well-formed key stands for: asset i is the i-th character
\* from the right.
KeySelection(k) == [i \in 1..Len(k) |-> RInt(IF k[Len(k) + 1 - i] = "1" THEN 1 ELSE 0)]

\* The error of a well-formed key by the full formula, without eps0.
KeyErr(k, c) == f(KeySelection(k), c.Sigma, c.g, R0)

\* The items of res with a well-formed key of exactly d ones.
ValidItems(c) ==
    {j \in 1..Len(c.res) :
        /\ WellFormed(c.res[j][1], c.N)
        /\ Cardinality({i \in 1..c.N : c.res[j][1][i] = "1"}) = c.d}

AllWellFormed(c) == \A j \in 1..Len(c.res) : WellFormed(c.res[j][1], c.N)

ValidWeight(c) ==
    RSum([j \in 1..Len(c.res) |->
        RInt(IF j \in ValidItems(c) THEN c.res[j][2] ELSE 0)])[1]

ScorerDone(fn) == call.fn = fn /\ call.pc = "done"

\* C2: compute_mean_terr is the sum of count*error over the samples with d
\* ones, divided by the sum of the counts of those samples only, plus eps0.
C2_MeanOverValidOnly ==
    (ScorerDone("compute_mean_terr") /\ AllWellFormed(call)
        /\ ValidWeight(call) > 0) =>
        LET num == RSum([j \in 1..Len(call.res) |->
                       IF j \in ValidItems(call)
                       THEN RMul(RInt(call.res[j][2]), KeyErr(call.res[j][1], call))
                       ELSE R0])
        IN  /\ call.ret.status = "ok"
            /\ call.ret.terr =
                   RAdd(Rat(num[1], num[2] * ValidWeight(call)), call.eps0)

\* C3: with no sample of d ones (or only such samples of count 0), both
\* scorers fail instead of returning a number or a selection.  Any error
\* raised is taken for the NoValidSamples failure.
C3_NoValidSamplesFails ==
    ((ScorerDone("compute_mean_terr") \/ ScorerDone("find_min_terr"))
        /\ AllWellFormed(call) /\ ValidWeight(call) = 0) =>
        call.ret.status # "ok"

\* C4: find_min_terr returns a sample of d ones whose error is minimal among
\* the samples of d ones, and reports that error plus eps0.
C4_BestSample ==
    (ScorerDone("find_min_terr") /\ AllWellFormed(call)
        /\ ValidItems(call) # {}) =>
        /\ call.ret.status = "ok"
        /\ \E j \in ValidItems(call) :
            /\ call.ret.stocks = call.res[j][1]
            /\ \A i \in ValidItems(call) :
                   RLe(KeyErr(call.res[j][1], call), KeyErr(call.res[i][1], call))
            /\ call.ret.terr = RAdd(KeyErr(call.res[j][1], call), call.eps0)

\* C8: a key of the wrong length or with a character other than 0 and 1
\* makes both scorers fail.  Any error raised is taken for MalformedSample.
C8_MalformedKeyFails ==
    ((ScorerDone("compute_mean_terr") \/ ScorerDone("find_min_terr"))
        /\ ~AllWellFormed(call)) =>
        call.ret.status # "ok"

\* C9: solve_qubo with d no more than the available stocks returns an array
\* of length pf.N with exactly d True entries, each where pf.n was True; so
\* pf.n keeps the length pf.N.
C9_SolveQuboSimilarToN ==
    /\ Len(pf.n) = pf.N
    /\ (call.fn = "solve_qubo" /\ call.ret.status = "ok"
            /\ call.d <= count_nonzero(call.pf0.n)) =>
        /\ Len(call.ret.stocks) = call.pf0.N
        /\ count_nonzero(call.ret.stocks) = call.d
        /\ \A i \in 1..Len(call.ret.stocks) :
               call.ret.stocks[i] => (i <= Len(call.pf0.n) /\ call.pf0.n[i])

====
